---------------------------- MODULE Spec2Model ----------------------------
(***************************************************************************)
(* A model of regex-charclass: the gap-aware scalar value type Char        *)
(* (src/src/char.rs), the bound normaliser, cardinality and regex renderer *)
(* for RangeSet<Char> (src/src/lib.rs) and the class identifier            *)
(* (src/src/tokens/mod.rs).                                                *)
(*                                                                         *)
(* A Char is modelled by its code (an integer).  A RangeSet<Char> is the   *)
(* flat sequence <<min1, max1, min2, max2, ...>> the container stores in   *)
(* its field 0.  A Rust String is the sequence of the codes of its chars.  *)
(* An operation that can abort carries the field panic.                    *)
(***************************************************************************)
EXTENDS Integers, Sequences, FiniteSets, TLC

VARIABLES
    overflow_checks,  \* build profile: TRUE = arithmetic overflow aborts (debug)
    pc,               \* "call": the operation is about to run; "done": it has run
    op,               \* the operation called
    a, b,             \* Char operands of the arithmetic operation
    self,             \* the receiver of +=, a before the call
    res,              \* its outcome: [panic, val]
    lo, hi,           \* the bounds given to the last new_from_range_* call
    made,             \* its outcome: [panic, some, min, max, set]
    set,              \* the range set the last set operation was applied to
    card,             \* result of get_cardinality
    token,            \* result of identify_class: [some, str]
    out,              \* result of to_regex: [panic, str]
    ch,               \* argument of get_printable_char
    printed           \* result of get_printable_char

vars == <<overflow_checks, pc, op, a, b, self, res, lo, hi, made, set, card, token, out, ch, printed>>

-----------------------------------------------------------------------------
(* char.rs: the surrogate gap and the codepoint space *)

INVALID_MIN == 55296
INVALID_MAX == 57343
INVALID_SIZE == 2048
\* char::MAX, the value of Bounded::max_value
CHAR_MAX == 1114111
\* Bounded::min_value
CHAR_MIN == 0
\* Bounded::one
CHAR_ONE == 1

\* char::from_u32(c).is_some()
IsScalar(c) == c >= 0 /\ c <= CHAR_MAX /\ ~(c >= INVALID_MIN /\ c <= INVALID_MAX)

\* Char::from_u32: Option<Char>
from_u32(c) == IF IsScalar(c) THEN [some |-> TRUE, val |-> c]
                              ELSE [some |-> FALSE, val |-> 0]

Ok(v) == [panic |-> FALSE, val |-> v]
Panicked == [panic |-> TRUE, val |-> 0]

\* Add without the step over the gap: a sum inside it is no char
AddNoSkip(x, y) == IF IsScalar(x + y) THEN Ok(x + y) ELSE Panicked

\* impl Add<Char> for Char.  Neither u32 sum can exceed 2^32.
Add(x, y) ==
    LET sum0 == x + y
        sum  == IF sum0 >= INVALID_MIN /\ sum0 <= INVALID_MAX
                   THEN INVALID_MAX + 1 + sum0 - INVALID_MIN
                   ELSE sum0
    IN  IF IsScalar(sum) THEN Ok(sum) ELSE Panicked

\* impl Sub<Char> for Char.  `minuhend - subtrahend` and `sub += INVALID_SIZE`
\* are u32 operations: they abort under overflow checks and wrap otherwise.
\* When the difference is -k, the wrapped u32 is 2^32 - k, which is above
\* INVALID_MIN; adding INVALID_SIZE wraps again to INVALID_SIZE - k when
\* k <= INVALID_SIZE and otherwise leaves a value above char::MAX.
Sub(x, y) ==
    LET minuhend   == IF x >= INVALID_MIN THEN x - INVALID_SIZE ELSE x
        subtrahend == IF y >= INVALID_MIN THEN y - INVALID_SIZE ELSE y
        k          == subtrahend - minuhend
        diff       == minuhend - subtrahend
        sub        == IF diff >= INVALID_MIN THEN diff + INVALID_SIZE ELSE diff
    IN  IF k > 0
           THEN IF overflow_checks THEN Panicked
                ELSE IF k <= INVALID_SIZE THEN Ok(INVALID_SIZE - k)
                ELSE Panicked
        ELSE IF IsScalar(sub) THEN Ok(sub) ELSE Panicked

\* impl AddAssign for Char: self.0 = (*self + rhs).0
AddAssign(x, y) == Add(x, y)

-----------------------------------------------------------------------------
(* The interval container (crate irange), as far as this crate uses it *)

NRanges(S) == Len(S) \div 2
Min(S, i) == S[2 * i - 1]
Max(S, i) == S[2 * i]

is_empty(S) == Len(S) = 0
is_total(S) == S = <<CHAR_MIN, CHAR_MAX>>

\* RangeSet::new_from_range(min..=max)
new_from_range(min, max) == IF min > max THEN <<>> ELSE <<min, max>>

RECURSIVE Between(_, _)
\* the ranges lying between range i and the last range of S
Between(S, i) ==
    IF i >= NRanges(S) THEN <<>>
    ELSE <<Add(Max(S, i), CHAR_ONE).val, Sub(Min(S, i + 1), CHAR_ONE).val>>
         \o Between(S, i + 1)

\* RangeSet::complement, over CHAR_MIN..CHAR_MAX with Char's own + and -
complement(S) ==
    IF Len(S) = 0 THEN <<CHAR_MIN, CHAR_MAX>>
    ELSE (IF Min(S, 1) > CHAR_MIN
             THEN <<CHAR_MIN, Sub(Min(S, 1), CHAR_ONE).val>> ELSE <<>>)
         \o Between(S, 1)
         \o (IF Max(S, NRanges(S)) < CHAR_MAX
                THEN <<Add(Max(S, NRanges(S)), CHAR_ONE).val, CHAR_MAX>> ELSE <<>>)

-----------------------------------------------------------------------------
(* lib.rs: cardinality *)

RECURSIVE CardinalityFrom(_, _)
\* the loop of get_cardinality from range r on (u32: the sum stays below 2^32)
CardinalityFrom(S, r) ==
    IF r > NRanges(S) THEN 0
    ELSE LET minuhend   == IF Max(S, r) >= INVALID_MIN
                              THEN Max(S, r) - INVALID_SIZE ELSE Max(S, r)
             subtrahend == IF Min(S, r) >= INVALID_MIN
                              THEN Min(S, r) - INVALID_SIZE ELSE Min(S, r)
         IN  (minuhend - subtrahend + 1) + CardinalityFrom(S, r + 1)

RECURSIVE CardinalityUnshiftedMin(_, _)
\* get_cardinality with the lower endpoint left unshifted
CardinalityUnshiftedMin(S, r) ==
    IF r > NRanges(S) THEN 0
    ELSE LET minuhend == IF Max(S, r) >= INVALID_MIN
                            THEN Max(S, r) - INVALID_SIZE ELSE Max(S, r)
         IN  (minuhend - Min(S, r) + 1) + CardinalityUnshiftedMin(S, r + 1)

get_cardinality_unshifted(S) == CardinalityUnshiftedMin(S, 1)

get_cardinality(S) == CardinalityFrom(S, 1)

-----------------------------------------------------------------------------
(* Strings: sequences of char codes *)

RECURSIVE HexDigits(_)
\* the lower-case hexadecimal digits of n, most significant first
HexDigits(n) ==
    LET d == n % 16
        c == IF d < 10 THEN 48 + d ELSE 87 + d
    IN  IF n < 16 THEN <<c>> ELSE HexDigits(n \div 16) \o <<c>>

RECURSIVE ZeroPad(_, _)
ZeroPad(s, width) == IF Len(s) >= width THEN s ELSE ZeroPad(<<48>> \o s, width)

\* format!("{:04x}", n)
Hex04(n) == ZeroPad(HexDigits(n), 4)

\* str::to_uppercase on an ASCII string
to_uppercase(s) == [i \in 1..Len(s) |-> IF s[i] >= 97 /\ s[i] <= 122 THEN s[i] - 32 ELSE s[i]]

\* tokens::identify_character: "\n" "\r" "\t" "\v"
identify_character(c) ==
    IF c = 10 THEN [some |-> TRUE, str |-> <<92, 110>>]
    ELSE IF c = 13 THEN [some |-> TRUE, str |-> <<92, 114>>]
    ELSE IF c = 9 THEN [some |-> TRUE, str |-> <<92, 116>>]
    ELSE IF c = 11 THEN [some |-> TRUE, str |-> <<92, 118>>]
    ELSE [some |-> FALSE, str |-> <<>>]

\* the characters get_printable_char escapes:  * + ? ( ) [ ] { } | \ - ^ .
Escaped == {42, 43, 63, 40, 41, 91, 93, 123, 125, 124, 92, 45, 94, 46}

\* get_printable_char with '-' missing from the escaped characters
get_printable_char_bare_dash(c) ==
    IF c >= 32 /\ c < 126
       THEN IF c \in Escaped \ {45} THEN <<92, c>> ELSE <<c>>
    ELSE IF identify_character(c).some THEN identify_character(c).str
    ELSE <<92, 117, 123>> \o Hex04(c) \o <<125>>

\* lib.rs get_printable_char; ('\u{20}'..'\u{7E}') is a half-open range
get_printable_char(c) ==
    IF c >= 32 /\ c < 126
       THEN IF c \in Escaped THEN <<92, c>> ELSE <<c>>
    ELSE IF identify_character(c).some THEN identify_character(c).str
    ELSE <<92, 117, 123>> \o Hex04(c) \o <<125>>

-----------------------------------------------------------------------------
(* tokens/unicode: the generated tables.  Each is a sorted list of         *)
(* (char, char) pairs.  The Perl tables and the three BY_NAME tables are    *)
(* represented by a few of their entries; the decimal and word tables by    *)
(* their leading ranges.                                                    *)

\* perl_decimal::DECIMAL_NUMBER
DECIMAL_NUMBER == << <<48, 57>>, <<1632, 1641>> >>

\* perl_space::WHITE_SPACE
WHITE_SPACE == << <<9, 13>>, <<32, 32>>, <<133, 133>>, <<160, 160>>, <<5760, 5760>>,
                  <<8192, 8202>>, <<8232, 8233>>, <<8239, 8239>>, <<8287, 8287>>,
                  <<12288, 12288>> >>

\* perl_word::PERL_WORD
PERL_WORD == << <<48, 57>>, <<65, 90>>, <<95, 95>>, <<97, 122>> >>

\* general_category::BY_NAME: Control, Decimal_Number, Line_Separator
GENERAL_CATEGORY_BY_NAME ==
    << [name |-> <<67, 111, 110, 116, 114, 111, 108>>,
        value |-> << <<0, 31>>, <<127, 159>> >>],
       [name |-> <<68, 101, 99, 105, 109, 97, 108, 95, 78, 117, 109, 98, 101, 114>>,
        value |-> DECIMAL_NUMBER],
       [name |-> <<76, 105, 110, 101, 95, 83, 101, 112, 97, 114, 97, 116, 111, 114>>,
        value |-> << <<8232, 8232>> >>] >>

\* property_bool::BY_NAME: ASCII_Hex_Digit, Join_Control, White_Space
PROPERTY_BOOL_BY_NAME ==
    << [name |-> <<65, 83, 67, 73, 73, 95, 72, 101, 120, 95, 68, 105, 103, 105, 116>>,
        value |-> << <<48, 57>>, <<65, 70>>, <<97, 102>> >>],
       [name |-> <<74, 111, 105, 110, 95, 67, 111, 110, 116, 114, 111, 108>>,
        value |-> << <<8204, 8205>> >>],
       [name |-> <<87, 104, 105, 116, 101, 95, 83, 112, 97, 99, 101>>,
        value |-> WHITE_SPACE] >>

\* script::BY_NAME: Braille, Ogham
SCRIPT_BY_NAME ==
    << [name |-> <<66, 114, 97, 105, 108, 108, 101>>,
        value |-> << <<10240, 10495>> >>],
       [name |-> <<79, 103, 104, 97, 109>>,
        value |-> << <<5760, 5788>> >>] >>

-----------------------------------------------------------------------------
(* tokens/mod.rs: the catalog and class identification *)

\* Ordering: "Less", "Equal", "Greater"
CmpInt(x, y) == IF x < y THEN "Less" ELSE IF x > y THEN "Greater" ELSE "Equal"

\* (char, char)::cmp
CmpPair(p, q) == IF p[1] # q[1] THEN CmpInt(p[1], q[1]) ELSE CmpInt(p[2], q[2])

RECURSIVE CmpRangesFrom(_, _, _)
CmpRangesFrom(x, y, i) ==
    IF i > Len(x) \/ i > Len(y) THEN CmpInt(Len(x), Len(y))
    ELSE IF CmpPair(x[i], y[i]) # "Equal" THEN CmpPair(x[i], y[i])
    ELSE CmpRangesFrom(x, y, i + 1)

\* [(char, char)]::cmp: lexicographic
CmpRanges(x, y) == CmpRangesFrom(x, y, 1)

\* the comparator of the catalog: a.0.cmp(&b.0).then_with(|| a.1.cmp(b.1))
CmpEntry(len1, ranges1, len2, ranges2) ==
    IF CmpInt(len1, len2) # "Equal" THEN CmpInt(len1, len2) ELSE CmpRanges(ranges1, ranges2)

Pushed(table) == [i \in 1..Len(table) |->
                    [len |-> Len(table[i].value), ranges |-> table[i].value, name |-> table[i].name]]

RECURSIVE Insert(_, _)
Insert(sorted, e) ==
    IF sorted = <<>> THEN <<e>>
    ELSE IF CmpEntry(e.len, e.ranges, Head(sorted).len, Head(sorted).ranges) = "Greater"
         THEN <<Head(sorted)>> \o Insert(Tail(sorted), e)
         ELSE <<e>> \o sorted

RECURSIVE Sorted(_)
Sorted(entries) == IF entries = <<>> THEN <<>> ELSE Insert(Sorted(Tail(entries)), Head(entries))

\* CLASSES_COLLECTION: the three tables pushed, then sorted by (len, ranges)
CLASSES_COLLECTION ==
    Sorted(Pushed(GENERAL_CATEGORY_BY_NAME) \o Pushed(PROPERTY_BOOL_BY_NAME)
           \o Pushed(SCRIPT_BY_NAME))

RECURSIVE BinarySearch(_, _, _)
\* binary_search_by over CLASSES_COLLECTION[left..right]
BinarySearch(ranges, left, right) ==
    IF left > right THEN [some |-> FALSE, name |-> <<>>]
    ELSE LET mid == (left + right) \div 2
             e   == CLASSES_COLLECTION[mid]
             c   == CmpEntry(e.len, e.ranges, Len(ranges), ranges)
         IN  IF c = "Equal" THEN [some |-> TRUE, name |-> e.name]
             ELSE IF c = "Less" THEN BinarySearch(ranges, mid + 1, right)
             ELSE BinarySearch(ranges, left, mid - 1)

\* tokens::find_class
find_class(ranges) == BinarySearch(ranges, 1, Len(CLASSES_COLLECTION))

\* tokens::convert_to_range: chunks_exact(2)
convert_to_range(S) == [i \in 1..NRanges(S) |-> <<Min(S, i), Max(S, i)>>]

is_perl_word(range) == PERL_WORD = range
is_perl_space(range) == WHITE_SPACE = range
is_perl_decimal(range) == DECIMAL_NUMBER = range

\* tokens::get_perl_class: "\d" "\s" "\w"
get_perl_class(range) ==
    IF is_perl_decimal(range) THEN [some |-> TRUE, str |-> <<92, 100>>]
    ELSE IF is_perl_space(range) THEN [some |-> TRUE, str |-> <<92, 115>>]
    ELSE IF is_perl_word(range) THEN [some |-> TRUE, str |-> <<92, 119>>]
    ELSE [some |-> FALSE, str |-> <<>>]

\* identify_class with the catalog consulted before the Perl tables
identify_class_catalog_first(this) ==
    IF get_cardinality(this) = 1 /\ Len(this) > 0 /\ identify_character(this[1]).some
       THEN identify_character(this[1])
    ELSE LET char  == convert_to_range(this)
             cchar == convert_to_range(complement(this))
         IN  IF find_class(char).some
                THEN [some |-> TRUE,
                      str |-> <<92, 112, 123>> \o find_class(char).name \o <<125>>]
             ELSE IF get_perl_class(char).some THEN get_perl_class(char)
             ELSE IF find_class(cchar).some
                THEN [some |-> TRUE,
                      str |-> <<92, 80, 123>> \o find_class(cchar).name \o <<125>>]
             ELSE IF get_perl_class(cchar).some
                THEN [some |-> TRUE, str |-> to_uppercase(get_perl_class(cchar).str)]
             ELSE [some |-> FALSE, str |-> <<>>]

\* tokens::identify_class.  this.iter().next() is the first lower endpoint.
identify_class(this) ==
    IF get_cardinality(this) = 1 /\ Len(this) > 0 /\ identify_character(this[1]).some
       THEN identify_character(this[1])
    ELSE LET char  == convert_to_range(this)
             comp  == complement(this)
             cchar == convert_to_range(comp)
         IN  IF get_perl_class(char).some THEN get_perl_class(char)
             ELSE IF find_class(char).some
                THEN [some |-> TRUE,
                      str |-> <<92, 112, 123>> \o find_class(char).name \o <<125>>]
             ELSE IF get_perl_class(cchar).some
                THEN [some |-> TRUE, str |-> to_uppercase(get_perl_class(cchar).str)]
             ELSE IF find_class(cchar).some
                THEN [some |-> TRUE,
                      str |-> <<92, 80, 123>> \o find_class(cchar).name \o <<125>>]
             ELSE [some |-> FALSE, str |-> <<>>]

-----------------------------------------------------------------------------
(* lib.rs: rendering *)

\* the loop body with adjacency taken on the raw codes, min + 1 = max
RangeTextRawAdjacent(min, max) ==
    IF min = max THEN get_printable_char(min)
    ELSE IF min + 1 = max
         THEN get_printable_char(min) \o get_printable_char(max)
         ELSE get_printable_char(min) \o <<45>> \o get_printable_char(max)

\* one iteration of the loop of convert_to_regex: the text pushed for a range
RangeText(min, max) ==
    IF min = max THEN get_printable_char(min)
    ELSE IF Add(min, CHAR_ONE).val = max
         THEN get_printable_char(min) \o get_printable_char(max)
         ELSE get_printable_char(min) \o <<45>> \o get_printable_char(max)

RECURSIVE RangesText(_, _)
RangesText(S, r) ==
    IF r > NRanges(S) THEN <<>> ELSE RangeText(Min(S, r), Max(S, r)) \o RangesText(S, r + 1)

\* `min + Char::one()` aborts in some iteration of the loop
LoopPanics(S) ==
    \E r \in 1..NRanges(S) : Min(S, r) # Max(S, r) /\ Add(Min(S, r), CHAR_ONE).panic

\* convert_to_regex with the complement taken also when it has as many ranges
convert_to_regex_ties_complement(range) ==
    LET comp          == complement(range)
        is_complement == Len(comp) <= Len(range)
        range_to_use  == IF is_complement THEN comp ELSE range
        sb            == RangesText(range_to_use, 1)
    IN  IF LoopPanics(range_to_use) THEN [panic |-> TRUE, str |-> <<>>]
        ELSE IF is_complement \/ Len(range_to_use) > 2
                THEN [panic |-> FALSE,
                      str |-> IF is_complement THEN <<91, 94>> \o sb \o <<93>>
                                               ELSE <<91>> \o sb \o <<93>>]
        ELSE IF Len(range_to_use) = 0 THEN [panic |-> TRUE, str |-> <<>>]
        ELSE IF range_to_use[1] # range_to_use[2]
                THEN [panic |-> FALSE, str |-> <<91>> \o sb \o <<93>>]
        ELSE [panic |-> FALSE, str |-> sb]

\* convert_to_regex with the brackets written around every rendering
convert_to_regex_always_wrapped(range) ==
    LET comp          == complement(range)
        is_complement == Len(comp) < Len(range)
        range_to_use  == IF is_complement THEN comp ELSE range
        sb            == RangesText(range_to_use, 1)
    IN  IF LoopPanics(range_to_use) THEN [panic |-> TRUE, str |-> <<>>]
        ELSE [panic |-> FALSE,
              str |-> IF is_complement THEN <<91, 94>> \o sb \o <<93>>
                                       ELSE <<91>> \o sb \o <<93>>]

\* lib.rs convert_to_regex; range_to_use.0[0] is out of bounds on an empty list
convert_to_regex(range) ==
    LET comp          == complement(range)
        is_complement == Len(comp) < Len(range)
        range_to_use  == IF is_complement THEN comp ELSE range
        sb            == RangesText(range_to_use, 1)
    IN  IF LoopPanics(range_to_use) THEN [panic |-> TRUE, str |-> <<>>]
        ELSE IF is_complement \/ Len(range_to_use) > 2
                THEN [panic |-> FALSE,
                      str |-> IF is_complement THEN <<91, 94>> \o sb \o <<93>>
                                               ELSE <<91>> \o sb \o <<93>>]
        ELSE IF Len(range_to_use) = 0 THEN [panic |-> TRUE, str |-> <<>>]
        ELSE IF range_to_use[1] # range_to_use[2]
                THEN [panic |-> FALSE, str |-> <<91>> \o sb \o <<93>>]
        ELSE [panic |-> FALSE, str |-> sb]

\* to_regex without the test for the empty set
to_regex_no_empty_case(S) ==
    IF is_total(S) THEN [panic |-> FALSE, str |-> <<46>>]
    ELSE IF identify_class(S).some THEN [panic |-> FALSE, str |-> identify_class(S).str]
    ELSE convert_to_regex(S)

\* CharacterClass::to_regex: "[]", ".", the identified token, or the explicit form
to_regex(S) ==
    IF is_empty(S) THEN [panic |-> FALSE, str |-> <<91, 93>>]
    ELSE IF is_total(S) THEN [panic |-> FALSE, str |-> <<46>>]
    ELSE IF identify_class(S).some THEN [panic |-> FALSE, str |-> identify_class(S).str]
    ELSE convert_to_regex(S)

-----------------------------------------------------------------------------
(* lib.rs: bound normalisation.  A Bound<&T> is [kind, t]; t is a u32 or   *)
(* the code of a char.  An outcome is [panic, some, val].                   *)

Included(t) == [kind |-> "Included", t |-> t]
Excluded(t) == [kind |-> "Excluded", t |-> t]
Unbounded == [kind |-> "Unbounded", t |-> 0]

SomeChar(c) == [panic |-> FALSE, some |-> TRUE, val |-> c]
NoChar == [panic |-> FALSE, some |-> FALSE, val |-> 0]
BoundPanic == [panic |-> TRUE, some |-> FALSE, val |-> 0]

\* lib.rs to_lowerbound_u32; '\u{E000}' = 57344
to_lowerbound_u32(bound) ==
    IF bound.kind = "Included"
       THEN IF from_u32(bound.t).some THEN SomeChar(bound.t) ELSE NoChar
    ELSE IF bound.kind = "Excluded"
       THEN IF ~from_u32(bound.t).some THEN NoChar
            ELSE IF from_u32(bound.t + 1).some THEN SomeChar(bound.t + 1)
            ELSE SomeChar(57344)
    ELSE SomeChar(CHAR_MIN)

\* lib.rs to_upperbound_u32; '\u{D7FF}' = 55295.  `*t - 1` is a u32 subtraction:
\* at 0 it aborts under overflow checks and otherwise wraps to 2^32 - 1, no scalar value
to_upperbound_u32(bound) ==
    IF bound.kind = "Included"
       THEN IF from_u32(bound.t).some THEN SomeChar(bound.t) ELSE NoChar
    ELSE IF bound.kind = "Excluded"
       THEN IF ~from_u32(bound.t).some THEN NoChar
            ELSE IF bound.t = 0 THEN (IF overflow_checks THEN BoundPanic ELSE SomeChar(55295))
            ELSE IF from_u32(bound.t - 1).some THEN SomeChar(bound.t - 1)
            ELSE SomeChar(55295)
    ELSE SomeChar(CHAR_MIN)

\* lib.rs to_lowerbound_char
to_lowerbound_char(bound) ==
    IF bound.kind = "Included" THEN SomeChar(bound.t)
    ELSE IF bound.kind = "Excluded"
       THEN IF from_u32(bound.t + 1).some THEN SomeChar(bound.t + 1)
            ELSE SomeChar(57344)
    ELSE SomeChar(CHAR_MIN)

\* lib.rs to_upperbound_char; `*t as u32 - 1` is a u32 subtraction
to_upperbound_char(bound) ==
    IF bound.kind = "Included" THEN SomeChar(bound.t)
    ELSE IF bound.kind = "Excluded"
       THEN IF bound.t = 0 THEN (IF overflow_checks THEN BoundPanic ELSE SomeChar(55295))
            ELSE IF from_u32(bound.t - 1).some THEN SomeChar(bound.t - 1)
            ELSE SomeChar(55295)
    ELSE SomeChar(CHAR_MIN)

NoSet == [panic |-> FALSE, some |-> FALSE, min |-> 0, max |-> 0, set |-> <<>>]
SetPanic == [panic |-> TRUE, some |-> FALSE, min |-> 0, max |-> 0, set |-> <<>>]

\* the tail of both constructors: the outcome with its two normalised bounds
Build(min, max) ==
    IF min.panic \/ (min.some /\ max.panic) THEN SetPanic
    ELSE IF ~min.some \/ ~max.some THEN NoSet
    ELSE [panic |-> FALSE, some |-> TRUE, min |-> min.val, max |-> max.val,
          set |-> new_from_range(min.val, max.val)]

\* CharacterClass::new_from_range_u32: `?` returns None before the upper bound is read
new_from_range_u32(start, end) == Build(to_lowerbound_u32(start), to_upperbound_u32(end))

\* CharacterClass::new_from_range_char
new_from_range_char(start, end) == Build(to_lowerbound_char(start), to_upperbound_char(end))

-----------------------------------------------------------------------------
(* Inputs *)

\* the largest number of ranges of an enumerated range set
MaxRanges == 3
\* get_printable_char is applied to every code below this one
PrintSpan == 128

\* operands of Char arithmetic: around 0, the gap, the maximum, and far from each
CharPoints == {0, 1, 2, 4096, 53248, 55294, 55295, 57344, 57345, 59392, 1114110, 1114111}

\* u32 bounds: scalar values, surrogates, and values above char::MAX
U32Points == {0, 1, 97, 55295, 55296, 57343, 57344, 1114111, 1114112, 2147483647}

\* endpoints of the enumerated range sets:
\* NUL \n - . 0 1 ^ U+D7FF U+E000 U+10FFFF
SetPoints == {0, 10, 45, 46, 48, 49, 94, 55295, 57344, 1114111}

PrintPoints == 0..PrintSpan \cup {255, 256, 4095, 4096, 55295, 57344, 65535, 65536, 1114111}

BoundsOver(points) == {Unbounded} \cup {Included(t) : t \in points} \cup {Excluded(t) : t \in points}

\* the sets of `sets` with one more range after their last one; the container keeps
\* its ranges sorted, disjoint and not adjacent
Extend(sets) == {s \o <<l, h>> : s \in sets, l \in SetPoints, h \in SetPoints}

WellFormed(S) ==
    /\ Len(S) % 2 = 0
    /\ \A i \in 1..Len(S) : IsScalar(S[i])
    /\ \A i \in 1..NRanges(S) : Min(S, i) <= Max(S, i)
    /\ \A i \in 1..(NRanges(S) - 1) :
          /\ Max(S, i) < Min(S, i + 1)
          /\ Add(Max(S, i), CHAR_ONE).val # Min(S, i + 1)

RECURSIVE SetsOf(_)
\* the well-formed range sets of exactly k ranges over SetPoints
SetsOf(k) == IF k = 0 THEN {<<>>} ELSE {S \in Extend(SetsOf(k - 1)) : WellFormed(S)}

Flat(ranges) == [i \in 1..(2 * Len(ranges)) |-> ranges[(i + 1) \div 2][2 - (i % 2)]]

TableSets ==
    {Flat(DECIMAL_NUMBER), Flat(WHITE_SPACE), Flat(PERL_WORD)}
    \cup {Flat(CLASSES_COLLECTION[i].ranges) : i \in 1..Len(CLASSES_COLLECTION)}

GenericSets == UNION {SetsOf(k) : k \in 0..MaxRanges}

\* the sets of tests::test_operations: a-z and {0-1, A-F, a-f}
TestSets == {<<97, 122>>, <<48, 49, 65, 70, 97, 102>>}

\* the inputs of the set operations: the enumerated sets, the tables, their complements
RangeSets ==
    GenericSets \cup TableSets \cup {complement(S) : S \in TableSets}
    \cup TestSets \cup {complement(S) : S \in TestSets}

-----------------------------------------------------------------------------
(* The state machine: a call is drawn with its inputs, then it runs *)

NoToken == [some |-> FALSE, str |-> <<>>]
NoOut == [panic |-> FALSE, str |-> <<>>]

NoArith == a = 0 /\ b = 0 /\ self = 0
NoBounds == lo = Unbounded /\ hi = Unbounded
NoRange == set = <<>>
NoPrint == ch = 0

Init ==
    /\ overflow_checks \in BOOLEAN
    /\ pc = "call"
    /\ res = Ok(0) /\ made = NoSet /\ card = 0 /\ token = NoToken /\ out = NoOut
    /\ printed = <<>>
    /\ \/ /\ op \in {"add", "sub", "add_assign"}
          /\ a \in CharPoints /\ b \in CharPoints /\ self = a
          /\ NoBounds /\ NoRange /\ NoPrint
       \/ /\ op = "new_from_range_u32"
          /\ lo \in BoundsOver(U32Points) /\ hi \in BoundsOver(U32Points)
          /\ NoArith /\ NoRange /\ NoPrint
       \/ /\ op = "new_from_range_char"
          /\ lo \in BoundsOver({t \in U32Points : IsScalar(t)})
          /\ hi \in BoundsOver({t \in U32Points : IsScalar(t)})
          /\ NoArith /\ NoRange /\ NoPrint
       \/ /\ op \in {"get_cardinality", "to_regex"}
          /\ set \in RangeSets
          /\ NoArith /\ NoBounds /\ NoPrint
       \/ /\ op = "identify_class"
          /\ set \in {S \in RangeSets : ~is_empty(S) /\ ~is_total(S)}
          /\ NoArith /\ NoBounds /\ NoPrint
       \/ /\ op = "get_printable_char"
          /\ ch \in {c \in PrintPoints : IsScalar(c)}
          /\ NoArith /\ NoBounds /\ NoRange

Calling(o) == pc = "call" /\ op = o /\ pc' = "done"

CharAdd ==
    /\ Calling("add")
    /\ res' = Add(a, b)
    /\ UNCHANGED <<overflow_checks, op, a, b, self, lo, hi, made, set, card, token, out, ch, printed>>

CharSub ==
    /\ Calling("sub")
    /\ res' = Sub(a, b)
    /\ UNCHANGED <<overflow_checks, op, a, b, self, lo, hi, made, set, card, token, out, ch, printed>>

\* c += rhs: the left operand is overwritten unless the addition aborts
CharAddAssign ==
    /\ Calling("add_assign")
    /\ res' = AddAssign(self, b)
    /\ self' = IF AddAssign(self, b).panic THEN self ELSE AddAssign(self, b).val
    /\ UNCHANGED <<overflow_checks, op, a, b, lo, hi, made, set, card, token, out, ch, printed>>

NewFromRangeU32 ==
    /\ Calling("new_from_range_u32")
    /\ made' = new_from_range_u32(lo, hi)
    /\ UNCHANGED <<overflow_checks, op, a, b, self, res, lo, hi, set, card, token, out, ch, printed>>

NewFromRangeChar ==
    /\ Calling("new_from_range_char")
    /\ made' = new_from_range_char(lo, hi)
    /\ UNCHANGED <<overflow_checks, op, a, b, self, res, lo, hi, set, card, token, out, ch, printed>>

GetCardinality ==
    /\ Calling("get_cardinality")
    /\ card' = get_cardinality(set)
    /\ UNCHANGED <<overflow_checks, op, a, b, self, res, lo, hi, made, set, token, out, ch, printed>>

IdentifyClass ==
    /\ Calling("identify_class")
    /\ token' = identify_class(set)
    /\ UNCHANGED <<overflow_checks, op, a, b, self, res, lo, hi, made, set, card, out, ch, printed>>

ToRegex ==
    /\ Calling("to_regex")
    /\ out' = to_regex(set)
    /\ UNCHANGED <<overflow_checks, op, a, b, self, res, lo, hi, made, set, card, token, ch, printed>>

GetPrintableChar ==
    /\ Calling("get_printable_char")
    /\ printed' = get_printable_char(ch)
    /\ UNCHANGED <<overflow_checks, op, a, b, self, res, lo, hi, made, set, card, token, out, ch>>

Next ==
    \/ CharAdd
    \/ CharSub
    \/ CharAddAssign
    \/ NewFromRangeU32
    \/ NewFromRangeChar
    \/ GetCardinality
    \/ IdentifyClass
    \/ ToRegex
    \/ GetPrintableChar

Spec == Init /\ [][Next]_vars

Done(o) == pc = "done" /\ op = o

-----------------------------------------------------------------------------
(* Properties *)

\* r is the least scalar value above c
IsNextScalar(c, r) ==
    /\ IsScalar(r) /\ r > c /\ r - c <= INVALID_SIZE + 1
    /\ \A e \in (c + 1)..(r - 1) : ~IsScalar(e)

\* r is the greatest scalar value below c
IsPrevScalar(c, r) == IsNextScalar(r, c)

\* C2: whenever neither operation aborts, (a + b) - b = a and (a - b) + b = a.
C2_AddSubInverse ==
    /\ (Done("add") /\ ~res.panic /\ ~Sub(res.val, b).panic) => Sub(res.val, b).val = a
    /\ (Done("sub") /\ ~res.panic /\ ~Add(res.val, b).panic) => Add(res.val, b).val = a

\* the number of surrogates in min..max
SurrogatesIn(min, max) ==
    LET from == IF min > INVALID_MIN THEN min ELSE INVALID_MIN
        to   == IF max < INVALID_MAX THEN max ELSE INVALID_MAX
    IN  IF to >= from THEN to - from + 1 ELSE 0

RECURSIVE ScalarCount(_, _)
\* the number of scalar values in the ranges r.. of S
ScalarCount(S, r) ==
    IF r > NRanges(S) THEN 0
    ELSE (Max(S, r) - Min(S, r) + 1) - SurrogatesIn(Min(S, r), Max(S, r))
         + ScalarCount(S, r + 1)

\* C3: get_cardinality of a well-formed range set is the number of scalar values
\* in it, surrogates not counted: 0 for the empty set, 1,112,064 for the total set.
C3_CardinalityExact ==
    Done("get_cardinality") =>
        /\ card = ScalarCount(set, 1)
        /\ set = <<>> => card = 0
        /\ set = <<0, 1114111>> => card = 1112064

\* a counted set of several ranges, one of them spanning the whole gap
C3_Witness ==
    /\ Done("get_cardinality") /\ NRanges(set) >= 2
    /\ \E r \in 1..NRanges(set) : Min(set, r) < INVALID_MIN /\ Max(set, r) > INVALID_MAX

\* C8: c + one and c += one give the next scalar value for every c but the
\* maximum, c - one the previous one for every c but 0: the gap is stepped over
\* and the result is never a surrogate.
C8_SuccessorPredecessor ==
    /\ (Done("add") /\ b = CHAR_ONE /\ a # CHAR_MAX) =>
           ~res.panic /\ IsNextScalar(a, res.val)
    /\ (Done("add_assign") /\ b = CHAR_ONE /\ a # CHAR_MAX) =>
           ~res.panic /\ IsNextScalar(a, self)
    /\ (Done("sub") /\ b = CHAR_ONE /\ a # CHAR_MIN) =>
           ~res.panic /\ IsPrevScalar(a, res.val)

\* the successor taken at the last value below the gap
C8_Witness == Done("add") /\ a = 55295 /\ b = CHAR_ONE /\ res = Ok(57344)

\* C5: in new_from_range_u32 an excluded lower bound t becomes the next scalar
\* value and an excluded upper bound the previous one; the call returns None when
\* t is no scalar value or has no such neighbour (lower 0x10FFFF, upper 0).
C5_ExcludedBoundsU32 ==
    Done("new_from_range_u32") =>
        /\ lo.kind = "Excluded" =>
              IF IsScalar(lo.t) /\ lo.t # CHAR_MAX
                 THEN made.some => IsNextScalar(lo.t, made.min)
                 ELSE ~made.some /\ ~made.panic
        /\ hi.kind = "Excluded" =>
              IF IsScalar(hi.t) /\ hi.t # CHAR_MIN
                 THEN made.some => IsPrevScalar(hi.t, made.max)
                 ELSE ~made.some /\ ~made.panic

\* C6: new_from_range_char returns a range set for every pair of bounds and
\* never aborts.
C6_CharRangeAlwaysSucceeds ==
    Done("new_from_range_char") => ~made.panic /\ made.some

RECURSIVE HexValue(_, _)
\* the number written by the lower-case hexadecimal digits s, -1 if s is not one
HexValue(s, acc) ==
    IF s = <<>> THEN acc
    ELSE LET d == Head(s)
             v == IF d >= 48 /\ d <= 57 THEN d - 48
                  ELSE IF d >= 97 /\ d <= 102 THEN d - 87 ELSE 0 - 1
         IN  IF v < 0 \/ acc < 0 \/ acc > CHAR_MAX THEN 0 - 1
             ELSE HexValue(Tail(s), acc * 16 + v)

\* s is \u{h...} with at least four lower-case hex digits that write c
IsUnicodeEscape(s, c) ==
    /\ Len(s) >= 8
    /\ SubSeq(s, 1, 3) = <<92, 117, 123>> /\ s[Len(s)] = 125
    /\ HexValue(SubSeq(s, 4, Len(s) - 1), 0) = c

Metacharacters == {42, 43, 63, 40, 41, 91, 93, 123, 125, 124, 92, 45, 94, 46}

\* C7: a character of 0x20..=0x7E that is no metacharacter is emitted verbatim,
\* a metacharacter with a backslash before it, newline, carriage return, tab and
\* vertical tab as \n \r \t \v, anything else as \u{XXXX} in lower-case hex.
C7_Escaping ==
    Done("get_printable_char") =>
        IF ch \in Metacharacters THEN printed = <<92, ch>>
        ELSE IF ch >= 32 /\ ch <= 126 THEN printed = <<ch>>
        ELSE IF ch = 10 THEN printed = <<92, 110>>
        ELSE IF ch = 13 THEN printed = <<92, 114>>
        ELSE IF ch = 9 THEN printed = <<92, 116>>
        ELSE IF ch = 11 THEN printed = <<92, 118>>
        ELSE IsUnicodeEscape(printed, ch)

-----------------------------------------------------------------------------
(* Reading a rendered string back as a bracket expression *)

At(s, i) == IF i >= 1 /\ i <= Len(s) THEN s[i] ELSE 0 - 1

RECURSIVE ClosingBrace(_, _)
\* the position of the first } of s at or after i, Len(s) + 1 if there is none
ClosingBrace(s, i) == IF i > Len(s) \/ s[i] = 125 THEN i ELSE ClosingBrace(s, i + 1)

\* the token of s that starts at i: its value (-1: not a token) and where the next starts.
\* \n \r \t \v are the controls, \u{h} is codepoint h, \c is the metacharacter c,
\* any other character stands for itself; a metacharacter must be escaped.
ReadToken(s, i) ==
    LET c == At(s, i)
        e == At(s, i + 1)
    IN  IF c = 92
           THEN IF e = 110 THEN [val |-> 10, next |-> i + 2]
                ELSE IF e = 114 THEN [val |-> 13, next |-> i + 2]
                ELSE IF e = 116 THEN [val |-> 9, next |-> i + 2]
                ELSE IF e = 118 THEN [val |-> 11, next |-> i + 2]
                ELSE IF e = 117 /\ At(s, i + 2) = 123
                   THEN LET close == ClosingBrace(s, i + 3)
                        IN  [val |-> IF close > Len(s) \/ close = i + 3 THEN 0 - 1
                                     ELSE HexValue(SubSeq(s, i + 3, close - 1), 0),
                             next |-> close + 1]
                ELSE IF e \in Metacharacters THEN [val |-> e, next |-> i + 2]
                ELSE [val |-> 0 - 1, next |-> i + 2]
        ELSE IF c \in Metacharacters THEN [val |-> 0 - 1, next |-> i + 1]
        ELSE [val |-> c, next |-> i + 1]

RECURSIVE ReadItems(_, _, _)
\* the items of s[i..last]: x-y is the closed range x..y, an undashed token one member.
\* An item that cannot be read is <<-1, -1>>.
ReadItems(s, i, last) ==
    IF i > last THEN <<>>
    ELSE LET x == ReadToken(s, i)
         IN  IF x.val < 0 \/ x.next > last + 1 THEN << <<0 - 1, 0 - 1>> >>
             ELSE IF x.next <= last /\ s[x.next] = 45
                THEN LET y == ReadToken(s, x.next + 1)
                     IN  IF y.val < 0 \/ y.next > last + 1 THEN << <<0 - 1, 0 - 1>> >>
                         ELSE << <<x.val, y.val>> >> \o ReadItems(s, y.next, last)
             ELSE << <<x.val, x.val>> >> \o ReadItems(s, x.next, last)

\* the bracket expression s: [^...] is complemented, [...] is not, and a string
\* without brackets is one token
Decoded(s) ==
    IF Len(s) >= 2 /\ s[1] = 91 /\ s[Len(s)] = 93
       THEN IF Len(s) >= 3 /\ s[2] = 94
               THEN [negated |-> TRUE, items |-> ReadItems(s, 3, Len(s) - 1)]
               ELSE [negated |-> FALSE, items |-> ReadItems(s, 2, Len(s) - 1)]
    ELSE LET x == ReadToken(s, 1)
         IN  [negated |-> FALSE,
              items |-> IF x.val < 0 \/ x.next # Len(s) + 1 THEN << <<0 - 1, 0 - 1>> >>
                        ELSE << <<x.val, x.val>> >>]

Readable(d) == \A i \in 1..Len(d.items) : d.items[i][1] >= 0 /\ d.items[i][1] <= d.items[i][2]

\* the scalar value c is matched by the decoded expression d
Matches(d, c) == d.negated # (\E i \in 1..Len(d.items) : d.items[i][1] <= c /\ c <= d.items[i][2])

\* the scalar value c is in the range set S
Contains(S, c) == \E r \in 1..NRanges(S) : Min(S, r) <= c /\ c <= Max(S, r)

\* Two unions of intervals that agree on every endpoint of either, on the neighbours
\* of the endpoints and on the ends of the gap and of the codepoint space are equal.
Probes(S, d) ==
    LET ends == {S[i] : i \in 1..Len(S)}
                \cup {d.items[i][1] : i \in 1..Len(d.items)}
                \cup {d.items[i][2] : i \in 1..Len(d.items)}
                \cup {CHAR_MIN, CHAR_MAX, INVALID_MIN - 1, INVALID_MAX + 1}
    IN  {c \in ends \cup {e - 1 : e \in ends} \cup {e + 1 : e \in ends} : IsScalar(c)}

\* to_regex takes the set to the explicit rendering
Explicit(S) == ~is_empty(S) /\ ~is_total(S) /\ ~identify_class(S).some

\* C1: the explicit rendering of a set, read back as a bracket expression,
\* matches exactly the scalar values of the set.
C1_RenderingDenotesSet ==
    (Done("to_regex") /\ Explicit(set)) =>
        /\ ~out.panic
        /\ Readable(Decoded(out.str))
        /\ \A c \in Probes(set, Decoded(out.str)) :
              Contains(set, c) <=> Matches(Decoded(out.str), c)

\* a complemented rendering with a dashed range and an escaped metacharacter in it
C1_Witness ==
    /\ Done("to_regex") /\ Explicit(set) /\ ~out.panic
    /\ Decoded(out.str).negated
    /\ \E i \in 1..Len(out.str) : out.str[i] = 45 /\ out.str[i - 1] # 92
    /\ \E i \in 1..(Len(out.str) - 1) : out.str[i] = 92 /\ out.str[i + 1] \in Metacharacters

\* C4: to_regex returns a string for every well-formed set and never aborts: "[]"
\* for the empty set, "." for the total set, else the identified token if there
\* is one, else the explicit rendering.
C4_ToRegexCases ==
    Done("to_regex") =>
        /\ ~out.panic
        /\ out.str = IF ScalarCount(set, 1) = 0 THEN <<91, 93>>
                     ELSE IF ScalarCount(set, 1) = 1112064 THEN <<46>>
                     ELSE IF identify_class(set).some THEN identify_class(set).str
                     ELSE convert_to_regex(set).str

\* the last case: a set neither empty, total nor identified is rendered explicitly
C4_Witness ==
    /\ Done("to_regex") /\ Explicit(set) /\ NRanges(set) = MaxRanges
    /\ ~out.panic /\ out.str = convert_to_regex(set).str

\* C9: a set of exactly one scalar value that is not identified is rendered as
\* the escaped character alone, without brackets; every other explicit rendering
\* is wrapped in [...] or [^...].
C9_SingleCharacterBare ==
    (Done("to_regex") /\ Explicit(set)) =>
        IF NRanges(set) = 1 /\ set[1] = set[2]
           THEN out.str = get_printable_char(set[1]) /\ out.str[1] # 91
           ELSE Len(out.str) >= 3 /\ out.str[1] = 91 /\ out.str[Len(out.str)] = 93

\* the set {'.'} rendered as \.
C9_Witness == Done("to_regex") /\ set = <<46, 46>> /\ out.str = <<92, 46>>

\* the entries of the three BY_NAME tables
CatalogEntries ==
    {GENERAL_CATEGORY_BY_NAME[i] : i \in 1..Len(GENERAL_CATEGORY_BY_NAME)}
    \cup {PROPERTY_BOOL_BY_NAME[i] : i \in 1..Len(PROPERTY_BOOL_BY_NAME)}
    \cup {SCRIPT_BY_NAME[i] : i \in 1..Len(SCRIPT_BY_NAME)}

InCatalog(ranges) == \E e \in CatalogEntries : e.value = ranges
NameOf(ranges) == (CHOOSE e \in CatalogEntries : e.value = ranges).name

Pairs(S) == [r \in 1..NRanges(S) |-> <<Min(S, r), Max(S, r)>>]

\* the token the five steps give for the set S, first match first
FirstMatch(S) ==
    LET own   == Pairs(S)
        other == Pairs(complement(S))
        one   == NRanges(S) = 1 /\ S[1] = S[2]
    IN  IF one /\ S[1] = 10 THEN [some |-> TRUE, str |-> <<92, 110>>]
        ELSE IF one /\ S[1] = 13 THEN [some |-> TRUE, str |-> <<92, 114>>]
        ELSE IF one /\ S[1] = 9 THEN [some |-> TRUE, str |-> <<92, 116>>]
        ELSE IF one /\ S[1] = 11 THEN [some |-> TRUE, str |-> <<92, 118>>]
        ELSE IF own = DECIMAL_NUMBER THEN [some |-> TRUE, str |-> <<92, 100>>]
        ELSE IF own = WHITE_SPACE THEN [some |-> TRUE, str |-> <<92, 115>>]
        ELSE IF own = PERL_WORD THEN [some |-> TRUE, str |-> <<92, 119>>]
        ELSE IF InCatalog(own)
           THEN [some |-> TRUE, str |-> <<92, 112, 123>> \o NameOf(own) \o <<125>>]
        ELSE IF other = DECIMAL_NUMBER THEN [some |-> TRUE, str |-> <<92, 68>>]
        ELSE IF other = WHITE_SPACE THEN [some |-> TRUE, str |-> <<92, 83>>]
        ELSE IF other = PERL_WORD THEN [some |-> TRUE, str |-> <<92, 87>>]
        ELSE IF InCatalog(other)
           THEN [some |-> TRUE, str |-> <<92, 80, 123>> \o NameOf(other) \o <<125>>]
        ELSE [some |-> FALSE, str |-> <<>>]

\* C10: identify_class returns the first match of: a one-element set of newline,
\* carriage return, tab or vertical tab (\n \r \t \v); the range list equal to the
\* Perl decimal, space or word table (\d \s \w); equal to a catalog entry
\* (\p{Name}); the complement equal to a Perl table (\D \S \W); the complement
\* equal to a catalog entry (\P{Name}); otherwise nothing.
C10_IdentificationOrder ==
    Done("identify_class") => token = FirstMatch(set)

\* the decimal table, which is also the catalog entry Decimal_Number, gives \d
C10_Witness ==
    /\ Done("identify_class") /\ Pairs(set) = DECIMAL_NUMBER /\ InCatalog(Pairs(set))
    /\ token = [some |-> TRUE, str |-> <<92, 100>>]

\* the number of maximal runs of scalar values outside the well-formed set S:
\* one before S unless S starts at 0, one between consecutive ranges, one after S
\* unless S ends at the maximum
OutsideRuns(S) ==
    (IF Min(S, 1) > CHAR_MIN THEN 1 ELSE 0) + (NRanges(S) - 1)
    + (IF Max(S, NRanges(S)) < CHAR_MAX THEN 1 ELSE 0)

\* s is written as a complemented bracket expression
Complemented(s) == Len(s) >= 3 /\ s[1] = 91 /\ s[2] = 94 /\ s[Len(s)] = 93

\* C11: on the explicit path the complement is rendered, inside [^...], exactly
\* when it has strictly fewer ranges than the set; with as many or more ranges
\* the set itself is rendered.
C11_ComplementWhenFewer ==
    (Done("to_regex") /\ Explicit(set)) =>
        /\ Complemented(out.str) <=> OutsideRuns(set) < NRanges(set)
        /\ LET d == Decoded(out.str)
           IN  \A c \in Probes(set, d) :
                  (\E i \in 1..Len(d.items) : d.items[i][1] <= c /\ c <= d.items[i][2])
                  <=> (IF OutsideRuns(set) < NRanges(set) THEN ~Contains(set, c)
                                                         ELSE Contains(set, c))

\* a tie: the set starts at 0, so its complement has as many ranges, and the set
\* itself is rendered
C11_Witness ==
    /\ Done("to_regex") /\ Explicit(set)
    /\ NRanges(set) >= 2 /\ OutsideRuns(set) = NRanges(set)
    /\ ~Complemented(out.str) /\ out.str[1] = 91

\* the text of one range: the escaped character, the two escaped characters when
\* max is the scalar value right after min, min-max otherwise
ItemText(min, max) ==
    IF min = max THEN get_printable_char(min)
    ELSE IF IsNextScalar(min, max) THEN get_printable_char(min) \o get_printable_char(max)
    ELSE get_printable_char(min) \o <<45>> \o get_printable_char(max)

RECURSIVE ItemsText(_, _)
\* the texts of the ranges r.. of S, in ascending order
ItemsText(S, r) ==
    IF r > NRanges(S) THEN <<>> ELSE ItemText(Min(S, r), Max(S, r)) \o ItemsText(S, r + 1)

\* the rendering s without its [^ ] or [ ] wrapper
Unwrapped(s) ==
    IF Complemented(s) THEN SubSeq(s, 3, Len(s) - 1)
    ELSE IF Len(s) >= 2 /\ s[1] = 91 /\ s[Len(s)] = 93 THEN SubSeq(s, 2, Len(s) - 1)
    ELSE s

\* C12: the explicit rendering writes the chosen ranges in ascending order, each
\* as one escaped character (min = max), as the two escaped characters without a
\* dash (max right after min, also 0xD7FF, 0xE000), or as min-max; the set
\* {'0'-'1', 'A'-'F', 'a'-'f'} gives "[01A-Fa-f]".
C12_RangeTexts ==
    (Done("to_regex") /\ Explicit(set)) =>
        /\ ~out.panic
        /\ Unwrapped(out.str) =
              ItemsText(IF Complemented(out.str) THEN complement(set) ELSE set, 1)
        /\ set = <<48, 49, 65, 70, 97, 102>> =>
              out.str = <<91, 48, 49, 65, 45, 70, 97, 45, 102, 93>>

\* the pair 0xD7FF, 0xE000 written without a dash after an escaped single character
C12_Witness ==
    /\ Done("to_regex") /\ set = <<45, 45, 55295, 57344>>
    /\ out.str = <<91, 92, 45, 92, 117, 123, 100, 55, 102, 102, 125,
                   92, 117, 123, 101, 48, 48, 48, 125, 93>>

=============================================================================
